---- MODULE Spec2Model ----
(***************************************************************************)
(* A model of src/locator.py: the multi-provider IPLocationTracker (the    *)
(* second class of the file, "robust ip.py") with its address validator,   *)
(* its provider loop, its three normalizers and its maps-link helper, and  *)
(* the maps-link helper of the single-provider class.                      *)
(*                                                                         *)
(* Python strings are sequences of one-character strings.  Python values   *)
(* coming out of a JSON body are tagged records [t, s, n]: t is the type   *)
(* ("str", "float", "int", "null"; "absent" marks a key the body does not  *)
(* have), s the characters of a str, n the number; a float is held in      *)
(* tenths (n = 374 is 37.4), an int in units.                              *)
(***************************************************************************)
EXTENDS Integers, Sequences, FiniteSets, TLC

VARIABLES pc, op, ip, hostname, idx, response, result, trace, lat, lon, link, linkSingle

vars == <<pc, op, ip, hostname, idx, response, result, trace, lat, lon, link, linkSingle>>

----------------------------------------------------------------------------
(* Bounds of the model.                                                    *)

\* coordinates handed to the maps-link helper range over -MaxCoord..MaxCoord tenths
MaxCoord == 5

\* coordinates found in a provider's body range over -MaxRawCoord..MaxRawCoord tenths
MaxRawCoord == 1

----------------------------------------------------------------------------
(* Characters and string helpers.                                          *)

Digits == {"0","1","2","3","4","5","6","7","8","9"}

HexDigits == Digits \cup {"a","b","c","d","e","f","A","B","C","D","E","F"}

Letters ==
  {"a","b","c","d","e","f","g","h","i","j","k","l","m","n","o","p","q","r","s","t","u","v","w","x","y","z",
   "A","B","C","D","E","F","G","H","I","J","K","L","M","N","O","P","Q","R","S","T","U","V","W","X","Y","Z"}

DigitVal == [c \in Digits |->
  CASE c = "0" -> 0 [] c = "1" -> 1 [] c = "2" -> 2 [] c = "3" -> 3 [] c = "4" -> 4
    [] c = "5" -> 5 [] c = "6" -> 6 [] c = "7" -> 7 [] c = "8" -> 8 [] c = "9" -> 9]

DigitChar == [d \in 0..9 |->
  CASE d = 0 -> "0" [] d = 1 -> "1" [] d = 2 -> "2" [] d = 3 -> "3" [] d = 4 -> "4"
    [] d = 5 -> "5" [] d = 6 -> "6" [] d = 7 -> "7" [] d = 8 -> "8" [] d = 9 -> "9"]

AllIn(s, set) == \A i \in 1..Len(s) : s[i] \in set

Contains(s, c) == \E i \in 1..Len(s) : s[i] = c

\* index of the first c in s, 0 when there is none
FirstIndex(s, c) ==
  IF Contains(s, c) THEN CHOOSE i \in 1..Len(s) : s[i] = c /\ \A j \in 1..(i-1) : s[j] # c
  ELSE 0

\* str.split(sep) for a one-character separator
RECURSIVE Split(_, _)
Split(s, sep) ==
  LET i == FirstIndex(s, sep) IN
  IF i = 0 THEN <<s>>
  ELSE <<SubSeq(s, 1, i-1)>> \o Split(SubSeq(s, i+1, Len(s)), sep)

\* the value of a string of decimal digits
RECURSIVE DecVal(_)
DecVal(s) ==
  IF s = <<>> THEN 0
  ELSE 10 * DecVal(SubSeq(s, 1, Len(s)-1)) + DigitVal[s[Len(s)]]

\* str(n) for a natural number n
RECURSIVE NatStr(_)
NatStr(n) ==
  IF n < 10 THEN <<DigitChar[n]>>
  ELSE NatStr(n \div 10) \o <<DigitChar[n % 10]>>

Abs(n) == IF n < 0 THEN -n ELSE n

----------------------------------------------------------------------------
(* Python values.                                                          *)

PyStr(c) == [t |-> "str", s |-> c, n |-> 0]

PyFloat(k) == [t |-> "float", s |-> <<>>, n |-> k]

PyInt(k) == [t |-> "int", s |-> <<>>, n |-> k]

Null == [t |-> "null", s |-> <<>>, n |-> 0]

Absent == [t |-> "absent", s |-> <<>>, n |-> 0]

Unknown == <<"U","n","k","n","o","w","n">>

NA == <<"N","/","A">>

NoneText == <<"N","o","n","e">>

\* str(x) of a float held in tenths: repr gives the shortest digits, "37.4", "-0.1", "0.0"
FmtFloat(k) ==
  (IF k < 0 THEN <<"-">> ELSE <<>>) \o NatStr(Abs(k) \div 10) \o <<".">> \o <<DigitChar[Abs(k) % 10]>>

\* str(x) of an int
FmtInt(k) == (IF k < 0 THEN <<"-">> ELSE <<>>) \o NatStr(Abs(k))

\* what an f-string renders for a value: f"{v}"
PyFormat(v) ==
  CASE v.t = "float" -> FmtFloat(v.n)
    [] v.t = "int" -> FmtInt(v.n)
    [] v.t = "null" -> NoneText
    [] OTHER -> v.s

\* v == 0.0 in Python: numbers compare by value, None and str are never equal to 0.0
EqualsZero(v) == v.t \in {"float", "int"} /\ v.n = 0

\* float(s) for the decimal numerals of the modelled bodies: an optional sign, digits,
\* an optional point and at most one fractional digit, at least one digit in all.
\* ok = FALSE is the ValueError float() raises.
ParseFloat(s) ==
  LET neg == Len(s) > 0 /\ s[1] = "-"
      body == IF Len(s) > 0 /\ s[1] \in {"-", "+"} THEN SubSeq(s, 2, Len(s)) ELSE s
      p == FirstIndex(body, ".")
      whole == IF p = 0 THEN body ELSE SubSeq(body, 1, p-1)
      frac == IF p = 0 THEN <<>> ELSE SubSeq(body, p+1, Len(body))
      good == /\ AllIn(whole, Digits) /\ AllIn(frac, Digits)
              /\ Len(whole) + Len(frac) > 0
              /\ Len(frac) <= 1
      mag == 10 * DecVal(whole) + (IF frac = <<>> THEN 0 ELSE DecVal(frac))
  IN IF good THEN [ok |-> TRUE, n |-> IF neg THEN -mag ELSE mag]
     ELSE [ok |-> FALSE, n |-> 0]

----------------------------------------------------------------------------
(* ipaddress.ip_address, as validate_ip_address uses it: the string is an  *)
(* address when IPv4Address or IPv6Address accepts it.                     *)

\* IPv4Address._parse_octet: non-empty, ASCII digits, at most 3, no leading zero, <= 255
ValidOctet(o) ==
  /\ o # <<>>
  /\ AllIn(o, Digits)
  /\ Len(o) <= 3
  /\ (o # <<"0">> => o[1] # "0")
  /\ DecVal(o) <= 255

\* IPv4Address: exactly four octets separated by "."
IsIPv4(s) ==
  /\ ~Contains(s, "/")
  /\ LET octets == Split(s, ".") IN
       /\ Len(octets) = 4
       /\ \A i \in 1..4 : ValidOctet(octets[i])

\* IPv6Address._parse_hextet: hexadecimal digits, at most 4 (int('', 16) raises)
ValidHextet(h) == h # <<>> /\ AllIn(h, HexDigits) /\ Len(h) <= 4

\* IPv6Address._split_scope_id: the part before "%", and whether the scope is well formed
ScopeIndex(s) == FirstIndex(s, "%")

AddressPart(s) == IF ScopeIndex(s) = 0 THEN s ELSE SubSeq(s, 1, ScopeIndex(s) - 1)

ScopeOk(s) ==
  LET scope == SubSeq(s, ScopeIndex(s) + 1, Len(s)) IN
  ScopeIndex(s) = 0 \/ (scope # <<>> /\ ~Contains(scope, "%"))

\* IPv6Address._ip_int_from_string on the address part
IsIPv6Groups(a) ==
  LET raw == Split(a, ":")
      last == raw[Len(raw)]
      embedded == Contains(last, ".")
      \* an embedded IPv4 tail is replaced by its two hextets
      parts == IF embedded THEN SubSeq(raw, 1, Len(raw) - 1) \o <<<<"0">>, <<"0">>>> ELSE raw
      n == Len(parts)
      skips == {i \in 2..(n-1) : parts[i] = <<>>}
      skip == CHOOSE i \in skips : TRUE
      hi0 == skip - 1
      lo0 == n - skip
      hi == IF parts[1] = <<>> THEN hi0 - 1 ELSE hi0
      lo == IF parts[n] = <<>> THEN lo0 - 1 ELSE lo0
  IN /\ a # <<>>
     /\ Len(raw) >= 3
     /\ (embedded => IsIPv4(last))
     /\ n <= 9
     /\ Cardinality(skips) <= 1
     /\ IF skips # {}
        THEN /\ (parts[1] = <<>> => hi = 0)
             /\ (parts[n] = <<>> => lo = 0)
             /\ 8 - (hi + lo) >= 1
             /\ \A i \in 1..hi : ValidHextet(parts[i])
             /\ \A i \in (n - lo + 1)..n : ValidHextet(parts[i])
        ELSE /\ n = 8
             /\ \A i \in 1..n : ValidHextet(parts[i])

IsIPv6(s) == ~Contains(s, "/") /\ ScopeOk(s) /\ IsIPv6Groups(AddressPart(s))

\* validate_ip_address: True unless ipaddress.ip_address raises ValueError
validate_ip_address(s) == IsIPv4(s) \/ IsIPv6(s)

----------------------------------------------------------------------------
(* The maps-link helper, in both classes of the file.                      *)

MapsPrefix == <<"h","t","t","p","s",":","/","/","w","w","w",".","g","o","o","g","l","e",".","c","o","m","/","m","a","p","s","/","s","e","a","r","c","h","/","?","a","p","i","=","1","&","q","u","e","r","y","=">>

NoCoordinates == <<"N","o"," ","c","o","o","r","d","i","n","a","t","e","s"," ","a","v","a","i","l","a","b","l","e">>

\* urllib.parse.quote: the characters it never quotes, and "/" (its default safe)
QuoteSafe == Letters \cup Digits \cup {"_", ".", "-", "~", "/"}

\* "%XX" of the ASCII characters of the modelled texts that quote does escape
PercentCode(c) ==
  CASE c = "," -> <<"%","2","C">>
    [] c = " " -> <<"%","2","0">>
    [] c = ":" -> <<"%","3","A">>
    [] c = "+" -> <<"%","2","B">>
    [] c = "%" -> <<"%","2","5">>

\* urllib.parse.quote(s)
RECURSIVE Quote(_)
Quote(s) ==
  IF s = <<>> THEN <<>>
  ELSE (IF s[1] \in QuoteSafe THEN <<s[1]>> ELSE PercentCode(s[1])) \o Quote(Tail(s))

\* the query both helpers build: f"{latitude},{longitude}"
CoordinateQuery(latitude, longitude) == PyFormat(latitude) \o <<",">> \o PyFormat(longitude)

\* the sentinel test with "or" for "and"
create_google_maps_link_Or(latitude, longitude) ==
  IF EqualsZero(latitude) \/ EqualsZero(longitude) THEN NoCoordinates
  ELSE MapsPrefix \o CoordinateQuery(latitude, longitude)

\* create_google_maps_link of the multi-provider class: the query is embedded as it is
create_google_maps_link(latitude, longitude) ==
  IF EqualsZero(latitude) /\ EqualsZero(longitude) THEN NoCoordinates
  ELSE MapsPrefix \o CoordinateQuery(latitude, longitude)

\* create_google_maps_link of the single-provider class: the query goes through quote
create_google_maps_link_single(latitude, longitude) ==
  IF EqualsZero(latitude) /\ EqualsZero(longitude) THEN NoCoordinates
  ELSE MapsPrefix \o Quote(CoordinateQuery(latitude, longitude))

----------------------------------------------------------------------------
(* Provider bodies and the three normalizers.                              *)

AllKeys == {"country_name", "country_code", "city", "region", "postal", "latitude", "longitude", "timezone", "org", "isp", "asn", "loc", "country", "countryCode", "regionName", "zip", "lat", "lon"}

\* a get that drops its default: a missing key reads as None
Get_NoDefault(geo_info, key, default) == IF geo_info[key].t = "absent" THEN Null ELSE geo_info[key]

\* dict.get(key, default): the default only when the key is missing
Get(geo_info, key, default) == IF geo_info[key].t = "absent" THEN default ELSE geo_info[key]

Record(rec) == [kind |-> "record", rec |-> rec]

Raised(exc) == [kind |-> "raised", exc |-> exc]

Error(msg) == [kind |-> "error", error |-> msg]

NoResult == [kind |-> "none"]

\* _process_ipapi_response (ipapi.co)
process_ipapi_response(addr, host, geo_info) ==
  LET latitude == Get(geo_info, "latitude", PyFloat(0))
      longitude == Get(geo_info, "longitude", PyFloat(0))
  IN Record([
       ip |-> PyStr(addr),
       hostname |-> PyStr(host),
       location |-> [
         country |-> Get(geo_info, "country_name", PyStr(Unknown)),
         country_code |-> Get(geo_info, "country_code", PyStr(NA)),
         city |-> Get(geo_info, "city", PyStr(Unknown)),
         region |-> Get(geo_info, "region", PyStr(Unknown)),
         postal_code |-> Get(geo_info, "postal", PyStr(NA)),
         latitude |-> latitude,
         longitude |-> longitude,
         timezone |-> Get(geo_info, "timezone", PyStr(NA)),
         google_maps_link |-> PyStr(create_google_maps_link(latitude, longitude))],
       network |-> [
         organization |-> Get(geo_info, "org", PyStr(Unknown)),
         isp |-> Get(geo_info, "isp", PyStr(Unknown)),
         asn |-> Get(geo_info, "asn", PyStr(Unknown))]])

\* _process_ipinfo_response (ipinfo.io): loc is split on "," and both halves go through
\* float(); a loc that is no str has no split (AttributeError), a half that is no numeral
\* raises ValueError, a loc without a comma has no second half (IndexError)
process_ipinfo_response(addr, host, geo_info) ==
  LET locValue == Get(geo_info, "loc", PyStr(<<"0",",","0">>))
      loc == Split(locValue.s, ",")
      first == ParseFloat(loc[1])
      second == ParseFloat(loc[2])
      latitude == PyFloat(first.n)
      longitude == PyFloat(second.n)
  IN IF locValue.t # "str" THEN Raised("AttributeError")
     ELSE IF ~first.ok THEN Raised("ValueError")
     ELSE IF Len(loc) < 2 THEN Raised("IndexError")
     ELSE IF ~second.ok THEN Raised("ValueError")
     ELSE Record([
       ip |-> PyStr(addr),
       hostname |-> PyStr(host),
       location |-> [
         country |-> Get(geo_info, "country", PyStr(Unknown)),
         country_code |-> Get(geo_info, "country", PyStr(NA)),
         city |-> Get(geo_info, "city", PyStr(Unknown)),
         region |-> Get(geo_info, "region", PyStr(Unknown)),
         postal_code |-> Get(geo_info, "postal", PyStr(NA)),
         latitude |-> latitude,
         longitude |-> longitude,
         timezone |-> Get(geo_info, "timezone", PyStr(NA)),
         google_maps_link |-> PyStr(create_google_maps_link(latitude, longitude))],
       network |-> [
         organization |-> Get(geo_info, "org", PyStr(Unknown)),
         isp |-> PyStr(NA),
         asn |-> PyStr(NA)]])

\* _process_ipapi_direct_response (ip-api.com)
process_ipapi_direct_response(addr, host, geo_info) ==
  LET latitude == Get(geo_info, "lat", PyFloat(0))
      longitude == Get(geo_info, "lon", PyFloat(0))
  IN Record([
       ip |-> PyStr(addr),
       hostname |-> PyStr(host),
       location |-> [
         country |-> Get(geo_info, "country", PyStr(Unknown)),
         country_code |-> Get(geo_info, "countryCode", PyStr(NA)),
         city |-> Get(geo_info, "city", PyStr(Unknown)),
         region |-> Get(geo_info, "regionName", PyStr(Unknown)),
         postal_code |-> Get(geo_info, "zip", PyStr(NA)),
         latitude |-> latitude,
         longitude |-> longitude,
         timezone |-> Get(geo_info, "timezone", PyStr(NA)),
         google_maps_link |-> PyStr(create_google_maps_link(latitude, longitude))],
       network |-> [
         organization |-> Get(geo_info, "org", PyStr(Unknown)),
         isp |-> Get(geo_info, "isp", PyStr(Unknown)),
         asn |-> PyStr(NA)]])

----------------------------------------------------------------------------
(* The inputs the environment supplies: the strings handed to the lookup,  *)
(* the outcome of the reverse lookup, and what each provider answers.      *)

\* strings handed to get_detailed_geolocation
Inputs == {
  <<"8",".","8",".","8",".","8">>,
  <<"2","5","5",".","0",".","0",".","1">>,
  <<"2","5","6",".","1",".","1",".","1">>,
  <<"1",".","2",".","3">>,
  <<"0","1",".","2",".","3",".","4">>,
  <<"1",".","2",".","3",".","4",".","5">>,
  <<"n","o","-","i","p">>,
  <<>>,
  <<":",":","1">>,
  <<"1",":",":">>,
  <<":",":">>,
  <<"2","0","0","1",":","d","b","8",":",":","1">>,
  <<":",":","f","f","f","f",":","1",".","2",".","3",".","4">>,
  <<":",":","1",".","2",".","3">>,
  <<"1",":","2">>,
  <<"1",":","2",":","3",":","4",":","5",":","6",":","7",":","8">>,
  <<"1",":",":","2",":",":","3">>,
  <<"1","2","3","4","5",":",":">>,
  <<":",":","g">>,
  <<"f","e","8","0",":",":","1","%","e","0">>,
  <<"f","e","8","0",":",":","1","%">>,
  <<"1",".","2",".","3",".","4","/","8">>,
  <<":","1",":",":">>}

\* names socket.gethostbyaddr returns
HostNames == {<<"d","n","s">>}

\* status codes a provider answers with
StatusCodes == {200, 404, 500}

CoordKeys == {"latitude", "longitude", "lat", "lon"}

SampleText(k) ==
  CASE k = "country_name" -> <<"U","k">>
    [] k = "country_code" -> <<"G","B">>
    [] k = "city" -> <<"L","o","n">>
    [] k = "region" -> <<"E","n","g">>
    [] k = "postal" -> <<"E","1">>
    [] k = "timezone" -> <<"U","T","C">>
    [] k = "org" -> <<"O","r","g">>
    [] k = "isp" -> <<"I","s","p">>
    [] k = "asn" -> <<"A","S","1">>
    [] k = "country" -> <<"F","r">>
    [] k = "countryCode" -> <<"F","R">>
    [] k = "regionName" -> <<"I","d","f">>
    [] k = "zip" -> <<"7","5">>
    [] k = "loc" -> <<"0",".","1",",","-","0",".","1">>
    [] OTHER -> <<"x">>

Sample(k) == IF k \in CoordKeys THEN PyFloat(1) ELSE PyStr(SampleText(k))

KeysA == {"country_name", "country_code", "city", "region", "postal", "latitude", "longitude",
          "timezone", "org", "isp", "asn"}

KeysB == {"country", "city", "region", "postal", "loc", "timezone", "org"}

KeysC == {"country", "countryCode", "city", "regionName", "zip", "lat", "lon", "timezone",
          "org", "isp"}

\* a JSON object holding the given keys, each with its sample value
Body(keys) == [k \in AllKeys |-> IF k \in keys THEN Sample(k) ELSE Absent]

Override(body, k, v) == [body EXCEPT ![k] = v]

\* what a body may hold under a key: nothing, null, a number, a string
FieldValues(k) == {Absent, Null, PyInt(7), Sample(k)}

\* what a body may hold under a coordinate key
CoordValues == {Absent, Null, PyInt(0)} \cup {PyFloat(k) : k \in (-MaxRawCoord)..MaxRawCoord}

\* loc texts that are no "lat,lon" pair
MalformedLocs == {<<>>, <<"5">>, <<"1",".","5">>, <<",">>, <<"a",",","1">>, <<"1",",","a">>,
                  <<"1",",">>, <<",","1">>, <<"n","/","a">>}

\* what a body of ipinfo.io may hold under loc
LocValues ==
  {Absent, Null, PyFloat(5), PyStr(<<"0",",","0">>), PyStr(<<"1",",","2",",","3">>)}
  \cup {PyStr(x) : x \in MalformedLocs}
  \cup {PyStr(FmtFloat(a) \o <<",">> \o FmtFloat(b)) :
          a \in (-MaxRawCoord)..MaxRawCoord, b \in (-MaxRawCoord)..MaxRawCoord}

\* the bodies of a provider: every descriptive key varied alone over a full and over an
\* empty body
FieldBodies(keys) ==
  UNION {{Override(base, k, v) : base \in {Body(keys), Body({})}, v \in FieldValues(k)} :
           k \in keys \ (CoordKeys \cup {"loc"})}

BodiesA ==
  FieldBodies(KeysA)
  \cup {Override(Override(Body(KeysA), "latitude", a), "longitude", b) :
          a \in CoordValues, b \in CoordValues}

BodiesB == FieldBodies(KeysB) \cup {Override(Body(KeysB), "loc", v) : v \in LocValues}

BodiesC ==
  FieldBodies(KeysC)
  \cup {Override(Override(Body(KeysC), "lat", a), "lon", b) : a \in CoordValues, b \in CoordValues}

Bodies(name) ==
  CASE name = "ipapi.co" -> BodiesA
    [] name = "ipinfo.io" -> BodiesB
    [] name = "ip-api.com" -> BodiesC
    [] OTHER -> {Body({})}

----------------------------------------------------------------------------
(* The multi-provider resolver: IPLocationTracker.get_detailed_geolocation *)
(* taken statement by statement.  pc is the position in the function,      *)
(* idx the position of the for loop in self.apis, trace the calls made to  *)
(* the outside (reverse lookup, provider fetches, sleeps) in their order.  *)

\* self.apis, as __init__ builds it
apis == <<
  [url |-> "https://ipapi.co/{}/json/", name |-> "ipapi.co", key_needed |-> FALSE],
  [url |-> "https://ipinfo.io/{}/json", name |-> "ipinfo.io", key_needed |-> FALSE],
  [url |-> "https://ip-api.com/json/{}", name |-> "ip-api.com", key_needed |-> FALSE] >>

\* requests.get(..., timeout=5)
TimeoutSeconds == 5

\* time.sleep(1)
DelaySeconds == 1

NoResponse == [kind |-> "none", status |-> 0, json |-> "none", geo |-> Body({})]

TransportError == [kind |-> "exception", status |-> 0, json |-> "none", geo |-> Body({})]

Http(status, json, geo) == [kind |-> "http", status |-> status, json |-> json, geo |-> geo]

LookupEvent(out) == [e |-> "dns", api |-> "", out |-> out, secs |-> 0]

FetchEvent(name, out) == [e |-> "fetch", api |-> name, out |-> out, secs |-> TimeoutSeconds]

SleepEvent == [e |-> "sleep", api |-> "", out |-> "", secs |-> DelaySeconds]

Init ==
  /\ pc = "idle"
  /\ op = "none"
  /\ ip = <<>>
  /\ hostname = <<>>
  /\ idx = 1
  /\ response = NoResponse
  /\ result = NoResult
  /\ trace = <<>>
  /\ lat = 0
  /\ lon = 0
  /\ link = <<>>
  /\ linkSingle = <<>>

\* the caller hands a string to get_detailed_geolocation
Call(s) ==
  /\ pc = "idle"
  /\ op' = "resolve"
  /\ ip' = s
  /\ pc' = "validate"
  /\ UNCHANGED <<hostname, idx, response, result, trace, lat, lon, link, linkSingle>>

\* the validation without its return: the lookup goes on whatever the string
Validate_NoReturn ==
  /\ pc = "validate"
  /\ pc' = "dns"
  /\ UNCHANGED <<op, ip, hostname, idx, response, result, trace, lat, lon, link, linkSingle>>

\* if not self.validate_ip_address(ip): return {"error": "Invalid IP address format"}
Validate ==
  /\ pc = "validate"
  /\ IF validate_ip_address(ip)
     THEN pc' = "dns" /\ UNCHANGED result
     ELSE pc' = "done" /\ result' = Error("Invalid IP address format")
  /\ UNCHANGED <<op, ip, hostname, idx, response, trace, lat, lon, link, linkSingle>>

\* hostname = socket.gethostbyaddr(ip)[0]
HostnameResolved(h) ==
  /\ pc = "dns"
  /\ hostname' = h
  /\ trace' = Append(trace, LookupEvent("ok"))
  /\ pc' = "loop"
  /\ UNCHANGED <<op, ip, idx, response, result, lat, lon, link, linkSingle>>

\* except (socket.herror, socket.gaierror): hostname = "N/A"
HostnameUnavailable(exc) ==
  /\ pc = "dns"
  /\ exc \in {"herror", "gaierror"}
  /\ hostname' = NA
  /\ trace' = Append(trace, LookupEvent(exc))
  /\ pc' = "loop"
  /\ UNCHANGED <<op, ip, idx, response, result, lat, lon, link, linkSingle>>

\* gethostbyaddr raises an OSError that is neither herror nor gaierror (a system error
\* of the resolver, a timeout): no except clause matches and it leaves the function
HostnameLookupRaises ==
  /\ pc = "dns"
  /\ trace' = Append(trace, LookupEvent("oserror"))
  /\ result' = Raised("OSError")
  /\ pc' = "done"
  /\ UNCHANGED <<op, ip, hostname, idx, response, lat, lon, link, linkSingle>>

InLoop == pc = "loop" /\ idx <= Len(apis)

\* a transport error that fetches the same provider again
FetchTransportError_Retry ==
  /\ InLoop
  /\ response' = TransportError
  /\ trace' = Append(trace, FetchEvent(apis[idx].name, "transport"))
  /\ UNCHANGED <<pc, op, ip, hostname, idx, result, lat, lon, link, linkSingle>>

\* requests.get raises a RequestException (timeout, connection error):
\* except requests.RequestException: continue
FetchTransportError ==
  /\ InLoop
  /\ response' = TransportError
  /\ trace' = Append(trace, FetchEvent(apis[idx].name, "transport"))
  /\ idx' = idx + 1
  /\ UNCHANGED <<pc, op, ip, hostname, result, lat, lon, link, linkSingle>>

\* response.status_code != 200: the if is skipped and time.sleep(1) is next
FetchBadStatus(code) ==
  /\ InLoop
  /\ code # 200
  /\ response' = Http(code, "none", Body({}))
  /\ trace' = Append(trace, FetchEvent(apis[idx].name, "status"))
  /\ pc' = "sleep"
  /\ UNCHANGED <<op, ip, hostname, idx, result, lat, lon, link, linkSingle>>

\* status 200 and response.json() raises.  The JSONDecodeError of requests is a
\* RequestException from requests 2.27 on (caught: continue) and a plain ValueError
\* before (not caught: it leaves the function); the repository pins no version.
FetchBadJson(caught) ==
  /\ InLoop
  /\ response' = Http(200, "invalid", Body({}))
  /\ trace' = Append(trace, FetchEvent(apis[idx].name, "badjson"))
  /\ IF caught
     THEN idx' = idx + 1 /\ UNCHANGED <<pc, result>>
     ELSE pc' = "done" /\ result' = Raised("ValueError") /\ UNCHANGED idx
  /\ UNCHANGED <<op, ip, hostname, lat, lon, link, linkSingle>>

\* the dispatch with two branches crossed
Normalize_Crossed(name, addr, host, resp) ==
  IF resp.json # "object" THEN Raised("AttributeError")
  ELSE CASE name = "ipapi.co" -> process_ipapi_response(addr, host, resp.geo)
         [] name = "ipinfo.io" -> process_ipapi_direct_response(addr, host, resp.geo)
         [] name = "ip-api.com" -> process_ipinfo_response(addr, host, resp.geo)
         [] OTHER -> NoResult

\* the if/elif chain on api['name']; a body that is no JSON object has no get
Normalize(name, addr, host, resp) ==
  IF resp.json # "object" THEN Raised("AttributeError")
  ELSE CASE name = "ipapi.co" -> process_ipapi_response(addr, host, resp.geo)
         [] name = "ipinfo.io" -> process_ipinfo_response(addr, host, resp.geo)
         [] name = "ip-api.com" -> process_ipapi_direct_response(addr, host, resp.geo)
         [] OTHER -> NoResult

\* status 200 and a body that parses: the normalizer of the provider's name returns
Respond200(json, geo) ==
  /\ LET resp == Http(200, json, geo)
         out == Normalize(apis[idx].name, ip, hostname, resp)
     IN /\ response' = resp
        /\ trace' = Append(trace, FetchEvent(apis[idx].name,
                                             IF json = "object" THEN "ok" ELSE "nonobject"))
        /\ IF out.kind = "none"
           THEN pc' = "sleep" /\ UNCHANGED result
           ELSE pc' = "done" /\ result' = out
  /\ UNCHANGED <<op, ip, hostname, idx, lat, lon, link, linkSingle>>

\* the body is a JSON object
FetchSuccess == InLoop /\ \E geo \in Bodies(apis[idx].name) : Respond200("object", geo)

\* the body is JSON but no object (an array, a string, null)
FetchNonObject == InLoop /\ Respond200("other", Body({}))

\* time.sleep(1), then the next api of the for loop
Sleep ==
  /\ pc = "sleep"
  /\ trace' = Append(trace, SleepEvent)
  /\ idx' = idx + 1
  /\ pc' = "loop"
  /\ UNCHANGED <<op, ip, hostname, response, result, lat, lon, link, linkSingle>>

\* the for loop is over: return {"error": "Failed to retrieve geolocation from all APIs"}
Exhausted ==
  /\ pc = "loop"
  /\ idx > Len(apis)
  /\ result' = Error("Failed to retrieve geolocation from all APIs")
  /\ pc' = "done"
  /\ UNCHANGED <<op, ip, hostname, idx, response, trace, lat, lon, link, linkSingle>>

\* the caller uses the maps-link helper on its own, on two floats
MapsLink(a, b) ==
  /\ pc = "idle"
  /\ op' = "link"
  /\ lat' = a
  /\ lon' = b
  /\ link' = create_google_maps_link(PyFloat(a), PyFloat(b))
  /\ linkSingle' = create_google_maps_link_single(PyFloat(a), PyFloat(b))
  /\ pc' = "done"
  /\ UNCHANGED <<ip, hostname, idx, response, result, trace>>

Next ==
  \/ \E s \in Inputs : Call(s)
  \/ Validate
  \/ \E h \in HostNames : HostnameResolved(h)
  \/ \E exc \in {"herror", "gaierror"} : HostnameUnavailable(exc)
  \/ HostnameLookupRaises
  \/ FetchTransportError
  \/ \E code \in StatusCodes : FetchBadStatus(code)
  \/ \E caught \in BOOLEAN : FetchBadJson(caught)
  \/ FetchSuccess
  \/ FetchNonObject
  \/ Sleep
  \/ Exhausted
  \/ \E a \in (-MaxCoord)..MaxCoord, b \in (-MaxCoord)..MaxCoord : MapsLink(a, b)

Spec == Init /\ [][Next]_vars

----------------------------------------------------------------------------
(* Vocabulary of the properties.                                           *)

\* the provider fetches of the call, in the order they were made
Fetches == SelectSeq(trace, LAMBDA ev : ev.e = "fetch")

\* the order the providers are to be tried in
ProviderOrder == <<"ipapi.co", "ipinfo.io", "ip-api.com">>

\* a fetch that failed: transport error, non-success status, or a body that is no JSON
FailedOuts == {"transport", "status", "badjson"}

\* the call has returned a LocationRecord
ReturnedRecord == op = "resolve" /\ pc = "done" /\ result.kind = "record"

\* the call has returned the given error
ReturnedError(msg) ==
  op = "resolve" /\ pc = "done" /\ result.kind = "error" /\ result.error = msg

\* the provider whose answer ended the call
LastApi == Fetches[Len(Fetches)].api

\* C1: a string that fails validation gets exactly the invalid-format error, and nothing
\* was done on the network before it: no reverse lookup, no fetch, no sleep.
C1_InvalidInputNoNetwork ==
  (op = "resolve" /\ pc # "validate" /\ ~validate_ip_address(ip))
    => /\ ReturnedError("Invalid IP address format")
       /\ trace = <<>>
       /\ hostname = <<>>
       /\ response = NoResponse

C1_Witness ==
  op = "resolve" /\ pc = "done" /\ ~validate_ip_address(ip) /\ result.kind = "error"

\* C2: the fetches follow the fixed order, each provider at most once; a provider is
\* fetched only after all the earlier ones failed; an answer with a JSON object ends the
\* call with what that provider's own normalizer makes of it, and nothing is fetched after.
C2_FixedOrderFirstSuccessWins ==
  LET f == Fetches IN
  /\ Len(f) <= Len(ProviderOrder)
  /\ \A i \in 1..Len(f) : f[i].api = ProviderOrder[i]
  /\ \A i \in 1..(Len(f) - 1) : f[i].out \in FailedOuts
  /\ (Len(f) > 0 /\ f[Len(f)].out \in {"ok", "nonobject"}) => pc = "done"
  /\ (Len(f) > 0 /\ f[Len(f)].out = "ok") =>
       result = (CASE LastApi = "ipapi.co" -> process_ipapi_response(ip, hostname, response.geo)
                   [] LastApi = "ipinfo.io" -> process_ipinfo_response(ip, hostname, response.geo)
                   [] LastApi = "ip-api.com" ->
                        process_ipapi_direct_response(ip, hostname, response.geo))

C2_Witness ==
  /\ ReturnedRecord
  /\ Len(Fetches) = 3
  /\ Fetches[1].out = "transport"
  /\ Fetches[2].out = "status"
  /\ Fetches[3].out = "ok"

\* C3: when all three providers fail by transport error or status, each was fetched
\* exactly once, the loop has nothing left to fetch, and the call returns the
\* all-providers error; no provider is ever fetched twice.
C3_AllFailedExhausted ==
  LET f == Fetches IN
  /\ \A i, j \in 1..Len(f) : f[i].api = f[j].api => i = j
  /\ (Len(f) >= 3 /\ \A i \in 1..Len(f) : f[i].out \in {"transport", "status"}) =>
       /\ Len(f) = 3
       /\ pc = "sleep" => idx = Len(apis)
       /\ pc = "loop" => idx > Len(apis)
       /\ pc = "done" => ReturnedError("Failed to retrieve geolocation from all APIs")

C3_Witness ==
  /\ ReturnedError("Failed to retrieve geolocation from all APIs")
  /\ Len(Fetches) = 3
  /\ \A i \in 1..3 : Fetches[i].out \in {"transport", "status"}
  /\ \E i \in 1..3 : Fetches[i].out = "transport"
  /\ \E i \in 1..3 : Fetches[i].out = "status"

\* C4: a provider's failure never reaches the caller as an exception: once a provider has
\* answered with status 200 and a JSON object, the call ends in a record or in the
\* all-providers error, also when that body cannot be normalized.
C4_ProviderFailureNeverRaises ==
  (op = "resolve" /\ pc = "done" /\ Len(Fetches) > 0 /\ Fetches[Len(Fetches)].out = "ok")
    => result.kind \in {"record", "error"}

\* C5: after a fetch that failed by transport error or by status, the next thing the
\* call does is the sleep: no other fetch follows it directly.
C5_DelayAfterEveryFailure ==
  \A i \in 1..(Len(trace) - 1) :
    (trace[i].e = "fetch" /\ trace[i].out \in {"transport", "status"})
      => (trace[i+1].e = "sleep" /\ trace[i+1].secs = 1)

\* a loc that is a "lat,lon" pair of numerals
WellFormedLoc(v) ==
  /\ v.t = "str"
  /\ Len(Split(v.s, ",")) = 2
  /\ ParseFloat(Split(v.s, ",")[1]).ok
  /\ ParseFloat(Split(v.s, ",")[2]).ok

\* C6: when ipinfo.io answers with a body whose loc is missing or malformed, the call
\* still returns a record, with latitude 0.0, longitude 0.0 and the no-coordinates link.
C6_IpinfoLocFailsSafe ==
  (op = "resolve" /\ pc = "done" /\ Len(Fetches) > 0 /\ LastApi = "ipinfo.io"
     /\ Fetches[Len(Fetches)].out = "ok" /\ ~WellFormedLoc(response.geo["loc"]))
    => /\ result.kind = "record"
       /\ result.rec.location.latitude = PyFloat(0)
       /\ result.rec.location.longitude = PyFloat(0)
       /\ result.rec.location.google_maps_link = PyStr(NoCoordinates)

\* C7: whatever way the reverse lookup fails, hostname becomes "N/A", the provider loop
\* runs, and a record that is returned carries hostname "N/A"; a lookup that succeeds
\* puts the resolved name in the record.
C7_LookupFailureNonFatal ==
  (Len(trace) > 0 /\ trace[1].e = "dns") =>
    /\ trace[1].out # "ok" =>
         /\ hostname = NA
         /\ result.kind # "raised" \/ Len(Fetches) > 0
         /\ ReturnedRecord => result.rec.hostname = PyStr(NA)
    /\ (trace[1].out = "ok" /\ ReturnedRecord) => result.rec.hostname = PyStr(hostname)

\* the body's key each field of the record is read from, per provider
SourceKey(api, field) ==
  CASE api = "ipapi.co" ->
         (CASE field = "country" -> "country_name" [] field = "country_code" -> "country_code"
            [] field = "city" -> "city" [] field = "region" -> "region"
            [] field = "postal_code" -> "postal" [] field = "timezone" -> "timezone"
            [] field = "organization" -> "org" [] field = "isp" -> "isp" [] field = "asn" -> "asn")
    [] api = "ipinfo.io" ->
         (CASE field = "country" -> "country" [] field = "country_code" -> "country"
            [] field = "city" -> "city" [] field = "region" -> "region"
            [] field = "postal_code" -> "postal" [] field = "timezone" -> "timezone"
            [] field = "organization" -> "org")
    [] api = "ip-api.com" ->
         (CASE field = "country" -> "country" [] field = "country_code" -> "countryCode"
            [] field = "city" -> "city" [] field = "region" -> "regionName"
            [] field = "postal_code" -> "zip" [] field = "timezone" -> "timezone"
            [] field = "organization" -> "org" [] field = "isp" -> "isp")

\* the field's key is missing from the body that was normalized
Missing(field) == response.geo[SourceKey(LastApi, field)].t = "absent"

GeoFields == {"country", "country_code", "city", "region", "postal_code", "timezone"}

\* the network fields hard-coded to "N/A" for the providers that do not report them
HardCodedNA ==
  /\ LastApi = "ipinfo.io" =>
       result.rec.network.isp = PyStr(NA) /\ result.rec.network.asn = PyStr(NA)
  /\ LastApi = "ip-api.com" => result.rec.network.asn = PyStr(NA)

\* C8 as stated: every descriptive geographic field missing from the body is "Unknown",
\* and "N/A" stands for the network fields the provider cannot report.
C8_MissingGeoFieldsUnknown ==
  ReturnedRecord =>
    /\ \A f \in GeoFields : Missing(f) => result.rec.location[f] = PyStr(Unknown)
    /\ HardCodedNA

\* C8 amended: a missing country, city or region is "Unknown"; a missing country code,
\* postal code or timezone is "N/A"; a missing organization, isp (ipapi.co, ip-api.com) or
\* asn (ipapi.co) is "Unknown"; isp and asn of ipinfo.io and asn of ip-api.com are "N/A".
C8_FallbackLiterals ==
  ReturnedRecord =>
    /\ \A f \in {"country", "city", "region"} :
         Missing(f) => result.rec.location[f] = PyStr(Unknown)
    /\ \A f \in {"country_code", "postal_code", "timezone"} :
         Missing(f) => result.rec.location[f] = PyStr(NA)
    /\ Missing("organization") => result.rec.network.organization = PyStr(Unknown)
    /\ (LastApi # "ipinfo.io" /\ Missing("isp")) => result.rec.network.isp = PyStr(Unknown)
    /\ (LastApi = "ipapi.co" /\ Missing("asn")) => result.rec.network.asn = PyStr(Unknown)
    /\ HardCodedNA

C8_Witness ==
  /\ ReturnedRecord
  /\ LastApi = "ip-api.com"
  /\ \A f \in GeoFields : Missing(f)
  /\ result.rec.location.country = PyStr(Unknown)
  /\ result.rec.location.postal_code = PyStr(NA)
  /\ result.rec.network.asn = PyStr(NA)

\* the record's coordinate comes from a key the body lacks or holds null under
NoCoordinate(key) == response.geo[key].t \in {"absent", "null"}

\* C9: in every record returned, every string field is a string, latitude and longitude
\* are numbers, and they are 0.0 when the provider gives no coordinate value.
C9_FieldsAlwaysPopulated ==
  ReturnedRecord =>
    /\ result.rec.ip.t = "str"
    /\ result.rec.hostname.t = "str"
    /\ \A f \in GeoFields \cup {"google_maps_link"} : result.rec.location[f].t = "str"
    /\ \A f \in {"organization", "isp", "asn"} : result.rec.network[f].t = "str"
    /\ result.rec.location.latitude.t \in {"float", "int"}
    /\ result.rec.location.longitude.t \in {"float", "int"}
    /\ (LastApi = "ipapi.co" /\ NoCoordinate("latitude")) =>
         result.rec.location.latitude = PyFloat(0)
    /\ (LastApi = "ip-api.com" /\ NoCoordinate("lat")) =>
         result.rec.location.latitude = PyFloat(0)

\* the helper was called on its own and touched nothing but its outputs
LinkOnly ==
  /\ result = NoResult /\ trace = <<>> /\ response = NoResponse
  /\ ip = <<>> /\ hostname = <<>> /\ idx = 1

\* C10 as stated: both helpers give the sentinel exactly for 0.0, 0.0 and otherwise the
\* prefix followed by the percent-encoded "lat,lon".
C10_LinkPercentEncoded ==
  op = "link" =>
    /\ \A out \in {link, linkSingle} :
         /\ out = NoCoordinates <=> (lat = 0 /\ lon = 0)
         /\ ~(lat = 0 /\ lon = 0) =>
              out = MapsPrefix \o Quote(FmtFloat(lat) \o <<",">> \o FmtFloat(lon))
    /\ LinkOnly

\* C10 amended: both helpers give the sentinel exactly for 0.0, 0.0; otherwise the helper
\* of the multi-provider class gives the prefix followed by "lat,lon" as it is, and the
\* helper of the single-provider class gives the prefix followed by "lat%2Clon".
C10_LinkPerVariant ==
  op = "link" =>
    /\ link = NoCoordinates <=> (lat = 0 /\ lon = 0)
    /\ linkSingle = NoCoordinates <=> (lat = 0 /\ lon = 0)
    /\ ~(lat = 0 /\ lon = 0) =>
         /\ link = MapsPrefix \o FmtFloat(lat) \o <<",">> \o FmtFloat(lon)
         /\ linkSingle = MapsPrefix \o FmtFloat(lat) \o <<"%", "2", "C">> \o FmtFloat(lon)
    /\ LinkOnly

C10_Witness ==
  /\ op = "link" /\ pc = "done"
  /\ lat = 0 /\ lon = -3
  /\ link # NoCoordinates
  /\ link # linkSingle

====
